---- MODULE Spec2Model ----
(***************************************************************************)
(* Model of np_struct/transfer.py: the packet transfer engine              *)
(* (PacketTransfer), its variant registry and the three transports        *)
(* (LoopBack, SerialInterface, SocketInterface).                           *)
(*                                                                         *)
(* One transport instance is modelled; `kind` is its class.  Bytes are     *)
(* small naturals, byte strings are sequences of them.  A frame is a       *)
(* header <<size, type>> followed by the body bytes.                       *)
(***************************************************************************)
EXTENDS Integers, Sequences, FiniteSets

VARIABLES
    kind,         \* class of the transport instance
    eol,          \* self.eol, the delimiter byte string
    rx_buffer,    \* LoopBack.rx_buffer
    tx_buffer,    \* LoopBack.tx_buffer
    ser_in,       \* SerialInterface: bytes waiting at the port (ser.in_waiting)
    ser_open,     \* SerialInterface: ser.is_open of each instance on the port
    OPEN_PORTS,   \* SerialInterface.OPEN_PORTS, port -> instance
    rxBuffer,     \* SocketInterface.rxBuffer
    net,          \* SocketInterface: bytes queued in the OS socket, not yet recv'd
    mode,         \* SocketInterface configuration: "udp", "server" or "client"
    _connected,   \* SocketInterface._connected
    socket,       \* SocketInterface.socket handle: "None", "open", "notconn" or "closed"
    _host_skt,    \* SocketInterface._host_skt handle, likewise
    subclasses,   \* pkt_class.__subclasses__(), in enumeration order
    _pkt_types,   \* PacketTransfer._pkt_types, discriminator -> variant
    ctor,         \* progress and outcome of PacketTransfer.__init__
    ret           \* the last call: its name, inputs, and what it returned or raised

vars == <<kind, eol, rx_buffer, tx_buffer, ser_in, ser_open, OPEN_PORTS, rxBuffer, net, mode,
          _connected, socket, _host_skt, subclasses, _pkt_types, ctor, ret>>

(***************************************************************************)
(* Bounds of the model.                                                    *)
(***************************************************************************)
MaxBuf == 4        \* longest receive buffer explored
MaxWrite == 2      \* longest raw byte string handed to write()
MaxNet == 2        \* most bytes queued in the OS socket or arriving at once
MaxSock == 2       \* most bytes held by a socket, queued and buffered together
MaxClasses == 3    \* most variants enumerated at construction
NumSerial == 2     \* SerialInterface instances sharing the port

Byte == 1..3

RECURSIVE SeqsUpTo(_, _)
SeqsUpTo(S, n) ==
    IF n = 0 THEN {<<>>}
    ELSE LET shorter == SeqsUpTo(S, n - 1)
         IN  shorter \cup {Append(s, x) : s \in {t \in shorter : Len(t) = n - 1}, x \in S}

Min(S) == CHOOSE x \in S : \A y \in S : x <= y

\* Python's slices b[:n] and b[n:] for 0 <= n
Take(b, n) == SubSeq(b, 1, IF n < Len(b) THEN n ELSE Len(b))
Drop(b, n) == SubSeq(b, (IF n < Len(b) THEN n ELSE Len(b)) + 1, Len(b))

\* the offsets (from 0) at which sub occurs in b
Occurrences(b, sub) ==
    {i \in 0..(Len(b) - Len(sub)) : SubSeq(b, i + 1, i + Len(sub)) = sub}

\* nbytes=None
None == -1

(***************************************************************************)
(* The packet contract (Struct/Packet facility).  A variant is a class     *)
(* with a name, the discriminator its header carries and a fixed body      *)
(* length; an instance carries its class and its field values.             *)
(***************************************************************************)
HdrLen == 2

PktBase == [name |-> "Packet", type |-> 0, body_len |-> 0]
PktA == [name |-> "A", type |-> 1, body_len |-> 1]
PktB == [name |-> "B", type |-> 2, body_len |-> 0]
\* a second class called "A" whose discriminator is free
PktA3 == [name |-> "A", type |-> 3, body_len |-> 0]
\* a class with its own name whose discriminator is that of A
PktC1 == [name |-> "C", type |-> 1, body_len |-> 0]

NoPacket == [cls |-> PktBase, size |-> 0, type |-> 0, body |-> <<>>]

get_size(cls) == HdrLen + cls.body_len

\* Packet.__init__: the size field is set to the computed size
Packet_init(cls, body) ==
    [cls |-> cls, size |-> get_size(cls), type |-> cls.type, body |-> body]

\* bytes(packet)
ToBytes(pkt) == <<pkt.size, pkt.type>> \o pkt.body

\* packet.unpack(bytes_) on an instance of cls
unpack(cls, b) ==
    [cls |-> cls, size |-> b[1], type |-> b[2], body |-> SubSeq(b, HdrLen + 1, Len(b))]

\* parse_header() of a packet holding the header bytes b
parse_header(b) == [size |-> b[1], type |-> b[2]]

\* build_header(**params) of a variant: it populates the packet in place.  The one
\* byte a variant with a body carries behind size and type is its destination
\* address, filled from params["dest"] when the caller or the engine gives one;
\* a variant with nothing to populate keeps the default hook, which does nothing.
build_header(pkt, params) ==
    IF "dest" \in DOMAIN params /\ Len(pkt.body) >= 1
    THEN [pkt EXCEPT !.body[1] = params["dest"]]
    ELSE pkt

Instances(cls) == {Packet_init(cls, body) : body \in {b \in SeqsUpTo(Byte, cls.body_len) : Len(b) = cls.body_len}}

(***************************************************************************)
(* The variant registry, PacketTransfer.__init__.  Python values used as   *)
(* dictionary keys are tagged with their type: a str is never equal to a   *)
(* number.                                                                 *)
(***************************************************************************)
PyStr(s) == [t |-> "str", s |-> s, i |-> 0]
PyInt(i) == [t |-> "int", s |-> "", i |-> i]

EmptyDict == [k \in {} |-> PktBase]

DictSet(d, k, v) == [x \in DOMAIN d \cup {k} |-> IF x = k THEN v ELSE d[x]]

\* d.pop(k) for a key d has
DictPop(d, k) == [x \in DOMAIN d \ {k} |-> d[x]]

\* pkt(byte_order=...).parse_header()['type'][0]
Discriminator(cls) == parse_header(Take(ToBytes(Packet_init(cls, <<>>)), HdrLen)).type

RECURSIVE RegistryLoop_NoTypeCheck(_, _, _)
RegistryLoop_NoTypeCheck(classes, i, types) ==
    IF i > Len(classes)
    THEN [exc |-> "None", msg |-> "", types |-> types]
    ELSE LET pkt == classes[i]
             ptype == Discriminator(pkt)
         IN  IF PyStr(pkt.name) \in DOMAIN types
             THEN [exc |-> "RuntimeError", msg |-> "Duplicate packet name", types |-> types]
             ELSE RegistryLoop_NoTypeCheck(classes, i + 1, DictSet(types, PyInt(ptype), pkt))

\* the loop over pkt_class.__subclasses__(), from the i-th class on
RECURSIVE RegistryLoop(_, _, _)
RegistryLoop(classes, i, types) ==
    IF i > Len(classes)
    THEN [exc |-> "None", msg |-> "", types |-> types]
    ELSE LET pkt == classes[i]
             ptype == Discriminator(pkt)
         IN  IF PyStr(pkt.name) \in DOMAIN types
             THEN [exc |-> "RuntimeError", msg |-> "Duplicate packet name", types |-> types]
             ELSE IF PyInt(ptype) \in DOMAIN types
             THEN [exc |-> "RuntimeError", msg |-> "Duplicate type fields", types |-> types]
             ELSE RegistryLoop(classes, i + 1, DictSet(types, PyInt(ptype), pkt))

PacketTransfer_init(classes) == RegistryLoop(classes, 1, EmptyDict)

(***************************************************************************)
(* The transport instance as a record, so that the engine's methods can    *)
(* be composed of the transport's.  An outcome is the instance after the   *)
(* call, the exception raised ("None" if the call returned) and the value  *)
(* returned.                                                               *)
(***************************************************************************)
Self ==
    [kind |-> kind, eol |-> eol, rx_buffer |-> rx_buffer, tx_buffer |-> tx_buffer,
     ser_in |-> ser_in, ser_open |-> ser_open, OPEN_PORTS |-> OPEN_PORTS, rxBuffer |-> rxBuffer, net |-> net, mode |-> mode,
     _connected |-> _connected, socket |-> socket, _host_skt |-> _host_skt,
     _pkt_types |-> _pkt_types]

\* what an error message shows after "Recieved:": a number or a byte string
NoPayload == [t |-> "none", i |-> 0, b |-> <<>>]
PayloadInt(i) == [t |-> "int", i |-> i, b |-> <<>>]
PayloadBytes(b) == [t |-> "bytes", i |-> 0, b |-> b]

Returns(s, data) == [self |-> s, exc |-> "None", data |-> data, recvd |-> NoPayload]
Raises(s, e) == [self |-> s, exc |-> e, data |-> <<>>, recvd |-> NoPayload]
RaisesMsg(s, e, recvd) == [self |-> s, exc |-> e, data |-> <<>>, recvd |-> recvd]

(***************************************************************************)
(* LoopBack                                                                *)
(***************************************************************************)
LoopBack_flush_OnlyOnReset(s, reset_tx) ==
    IF reset_tx THEN [s EXCEPT !.rx_buffer = <<>>] ELSE s

LoopBack_flush(s, reset_tx) ==
    LET s1 == [s EXCEPT !.rx_buffer = <<>>]
    IN  IF reset_tx THEN [s1 EXCEPT !.rx_buffer = <<>>] ELSE s1

LoopBack_write(s, bytes_) ==
    [s EXCEPT !.tx_buffer = bytes_, !.rx_buffer = s.rx_buffer \o bytes_]

LoopBack_read_Short(s, nbytes) ==
    IF nbytes = None /\ Occurrences(s.rx_buffer, s.eol) = {}
    THEN Raises(s, "ValueError")
    ELSE LET n == IF nbytes = None THEN Min(Occurrences(s.rx_buffer, s.eol)) ELSE nbytes
         IN  Returns([s EXCEPT !.rx_buffer = Drop(s.rx_buffer, n)], Take(s.rx_buffer, n))

LoopBack_read(s, nbytes) ==
    IF nbytes = None /\ Occurrences(s.rx_buffer, s.eol) = {}
    THEN Raises(s, "ValueError")
    ELSE LET n == IF nbytes = None THEN Min(Occurrences(s.rx_buffer, s.eol)) ELSE nbytes
         IN  IF Len(s.rx_buffer) >= n
             THEN Returns([s EXCEPT !.rx_buffer = Drop(s.rx_buffer, n)], Take(s.rx_buffer, n))
             ELSE \* '... read {} bytes. Recieved: {}'.format(self.timeout, nbytes, self.rx_buffer)
                  RaisesMsg(s, "RuntimeError", PayloadInt(nbytes))

(***************************************************************************)
(* SerialInterface.  ser_in is what the port has received and the program  *)
(* has not read (ser.in_waiting bytes).  Bytes that arrive while read()    *)
(* polls are bytes of ser_in: arrival is the environment's step.           *)
(* Instance 1 is the transport whose reads and writes are followed; the    *)
(* other instances are opened and closed on the same port.  pyserial       *)
(* raises SerialException on any use of a port that is not open.           *)
(***************************************************************************)
SerialInstances == 1..NumSerial

\* self.port, upper-cased
Port == "COM1"

is_open(s, i) == s.ser_open[i]

SerialInterface_close_Unguarded(s, i) ==
    IF Port \in DOMAIN s.OPEN_PORTS
    THEN Returns([s EXCEPT !.OPEN_PORTS = DictPop(@, Port),
                           !.ser_open[i] = FALSE,
                           !.ser_in = IF i = 1 THEN <<>> ELSE @], <<>>)
    ELSE Raises(s, "KeyError")

SerialInterface_close(s, i) ==
    IF is_open(s, i)
    THEN IF Port \in DOMAIN s.OPEN_PORTS
         THEN Returns([s EXCEPT !.OPEN_PORTS = DictPop(@, Port),
                                !.ser_open[i] = FALSE,
                                !.ser_in = IF i = 1 THEN <<>> ELSE @], <<>>)
         ELSE Raises(s, "KeyError")
    ELSE Returns(s, <<>>)

SerialInterface_open_NoDisplace(s, i) ==
    IF s.ser_open[i]
    THEN {Raises(s, "SerialException")}
    ELSE {Returns([s EXCEPT !.ser_open[i] = TRUE, !.OPEN_PORTS = DictSet(@, Port, i)], <<>>),
          Raises(s, "SerialException")}

\* ser.open() raises if this Serial object is open already, and may fail on the device
SerialInterface_open(s, i) ==
    LET c == IF Port \in DOMAIN s.OPEN_PORTS
             THEN SerialInterface_close(s, s.OPEN_PORTS[Port])
             ELSE Returns(s, <<>>)
    IN  IF c.exc # "None"
        THEN {c}
        ELSE IF c.self.ser_open[i]
        THEN {Raises(c.self, "SerialException")}
        ELSE {Returns([c.self EXCEPT !.ser_open[i] = TRUE,
                                     !.OPEN_PORTS = DictSet(@, Port, i)], <<>>),
              Raises(c.self, "SerialException")}

SerialInterface_flush(s, reset_tx) ==
    IF ~is_open(s, 1)
    THEN Raises(s, "SerialException")
    ELSE Returns([s EXCEPT !.ser_in = <<>>], <<>>)

SerialInterface_write(s, bytes_) ==
    IF ~is_open(s, 1) THEN Raises(s, "SerialException") ELSE Returns(s, bytes_)

SerialInterface_read(s, nbytes) ==
    IF ~is_open(s, 1)
    THEN Raises(s, "SerialException")
    ELSE IF nbytes = None
    THEN IF Occurrences(s.ser_in, s.eol) # {}
         THEN \* read_until returns the bytes up to and including the delimiter
              LET n == Min(Occurrences(s.ser_in, s.eol)) + Len(s.eol)
              IN  Returns([s EXCEPT !.ser_in = Drop(s.ser_in, n)], Take(s.ser_in, n))
         ELSE \* read_until gives up at the deadline; what it read is dropped
              RaisesMsg(SerialInterface_flush([s EXCEPT !.ser_in = <<>>], TRUE).self, "RuntimeError",
                        PayloadBytes(<<>>))
    ELSE IF Len(s.ser_in) >= nbytes
         THEN Returns([s EXCEPT !.ser_in = Drop(s.ser_in, nbytes)], Take(s.ser_in, nbytes))
         ELSE \* atport = ser.read(in_waiting); flush(); raise
              RaisesMsg(SerialInterface_flush([s EXCEPT !.ser_in = <<>>], TRUE).self, "RuntimeError",
                        PayloadBytes(s.ser_in))

(***************************************************************************)
(* SocketInterface.  net is what the OS has queued for the socket; recv    *)
(* moves a part of it to rxBuffer.  A handle is "None", "closed", or held  *)
(* by the OS: "open" if shutdown() succeeds on it, "notconn" if shutdown() *)
(* raises ENOTCONN (a socket with no peer: never connected, a datagram     *)
(* socket, one whose peer has reset, a listening socket on a platform that *)
(* refuses to shut one down).                                              *)
(***************************************************************************)
Held(h) == h \in {"open", "notconn"}

SocketInterface_flush(s, resetTX) == [s EXCEPT !.rxBuffer = <<>>]

is_connected(s) == s._connected

\* what `try: s.shutdown(SHUT_RDWR); s.close() except: pass` leaves of a handle:
\* when shutdown raises (ENOTCONN, or EBADF on a closed handle) close() is skipped
AfterShutdownClose(h) ==
    IF h = "open" THEN "closed" ELSE h

SocketInterface_close(s) ==
    IF ~is_connected(s)
    THEN {s}
    ELSE {[s EXCEPT !._host_skt = AfterShutdownClose(s._host_skt),
                    !.socket = AfterShutdownClose(s.socket)]}

\* as if connect() did not return early on a connected transport
SocketInterface_connect_Again(s) ==
    IF s.mode = "udp"
    THEN {Returns([s EXCEPT !._connected = ~(s.mode = "udp")], <<>>)}
    ELSE IF s.mode = "server"
    THEN IF Held(s._host_skt)
         THEN {Returns([s EXCEPT !.socket = "open", !._connected = TRUE], <<>>),
               Raises(s, "timeout")}
         ELSE {Raises(s, "OSError")}
    ELSE IF Held(s.socket)
         THEN {Returns([s EXCEPT !.socket = "open", !._connected = TRUE], <<>>),
               Raises(s, "OSError")}
         ELSE {Raises(s, "OSError")}

SocketInterface_connect(s) ==
    IF is_connected(s)
    THEN {Returns(s, <<>>)}
    ELSE IF s.mode = "udp"
    THEN {Returns([s EXCEPT !._connected = ~(s.mode = "udp")], <<>>)}
    ELSE IF s.mode = "server"
    THEN IF Held(s._host_skt)
         THEN \* accept() hands over the peer socket, or times out
              {Returns([s EXCEPT !.socket = "open", !._connected = TRUE], <<>>),
               Raises(s, "timeout")}
         ELSE {Raises(s, "OSError")}
    ELSE IF Held(s.socket)
         THEN {Returns([s EXCEPT !.socket = "open", !._connected = TRUE], <<>>),
               Raises(s, "OSError")}
         ELSE {Raises(s, "OSError")}

\* the value returned stands for the bytes the channel accepted
SocketInterface_write_NoCheck(s, data_bytes) ==
    IF s.mode = "udp" /\ Held(s.socket)
    THEN {Returns(s, data_bytes)}
    ELSE IF s.socket = "open"
    THEN {Returns(s, data_bytes)}
    ELSE IF s.socket = "notconn"
    THEN {Returns(s, data_bytes), Raises(s, "OSError")}
    ELSE {Raises(s, "OSError")}

SocketInterface_write(s, data_bytes) ==
    IF ~is_connected(s)
    THEN {Raises(s, "RuntimeError")}
    ELSE IF s.mode = "udp" /\ Held(s.socket)
    THEN {Returns(s, data_bytes)}
    ELSE IF s.socket = "open"
    THEN {Returns(s, data_bytes)}
    ELSE IF s.socket = "notconn"
    THEN \* the peer is gone: sendall may still succeed or raise
         {Returns(s, data_bytes), Raises(s, "OSError")}
    ELSE {Raises(s, "OSError")}

_read_from_buffer_KeepsDelimiter(s, size) ==
    LET n == IF size = None THEN Min(Occurrences(s.rxBuffer, s.eol)) ELSE size
    IN  Returns([s EXCEPT !.rxBuffer = Drop(s.rxBuffer, n)], Take(s.rxBuffer, n))

_read_from_buffer(s, size) ==
    IF size = None
    THEN LET idx == Min(Occurrences(s.rxBuffer, s.eol))
         IN  Returns([s EXCEPT !.rxBuffer = Drop(s.rxBuffer, idx + 1)], Take(s.rxBuffer, idx))
    ELSE Returns([s EXCEPT !.rxBuffer = Drop(s.rxBuffer, size)], Take(s.rxBuffer, size))

_is_read_complete(s, size) ==
    IF size = None
    THEN Occurrences(s.rxBuffer, s.eol) # {}
    ELSE Len(s.rxBuffer) >= size

\* s after recv has moved the first k queued bytes to rxBuffer
Recvd(s, k) == [s EXCEPT !.rxBuffer = s.rxBuffer \o Take(s.net, k), !.net = Drop(s.net, k)]

\* The loop returns as soon as the buffer completes the read, receives otherwise,
\* and ends in close() and TimeoutError when recv times out or the deadline passes.
SocketInterface_read(s, nbytes) ==
    IF ~is_connected(s)
    THEN {Raises(s, "RuntimeError")}
    ELSE IF _is_read_complete(s, nbytes)
    THEN {_read_from_buffer(s, nbytes)}
    ELSE IF ~Held(s.socket)
    THEN {Raises(s, "OSError")}
    ELSE (IF s.socket = "notconn" THEN {Raises(s, "OSError")} ELSE {}) \cup UNION {
            {RaisesMsg(c, "TimeoutError", PayloadBytes(c.rxBuffer))
                : c \in SocketInterface_close(Recvd(s, k))}
            \cup (IF k > 0 /\ _is_read_complete(Recvd(s, k), nbytes)
                  THEN {_read_from_buffer(Recvd(s, k), nbytes)}
                  ELSE {})
            : k \in 0..Len(s.net)}

(***************************************************************************)
(* PacketTransfer: flush, write and read are the subclass's.               *)
(***************************************************************************)
flush(s, reset_tx) ==
    CASE s.kind = "LoopBack" -> Returns(LoopBack_flush(s, reset_tx), <<>>)
      [] s.kind = "Serial"   -> SerialInterface_flush(s, reset_tx)
      [] s.kind = "Socket"   -> Returns(SocketInterface_flush(s, reset_tx), <<>>)

write(s, bytes_) ==
    CASE s.kind = "LoopBack" -> {Returns(LoopBack_write(s, bytes_), bytes_)}
      [] s.kind = "Serial"   -> {SerialInterface_write(s, bytes_)}
      [] s.kind = "Socket"   -> SocketInterface_write(s, bytes_)

read(s, nbytes) ==
    CASE s.kind = "LoopBack" -> {LoopBack_read(s, nbytes)}
      [] s.kind = "Serial"   -> {SerialInterface_read(s, nbytes)}
      [] s.kind = "Socket"   -> SocketInterface_read(s, nbytes)

\* the receive buffer of the transport
RecvBuf(s) ==
    CASE s.kind = "LoopBack" -> s.rx_buffer
      [] s.kind = "Serial"   -> s.ser_in
      [] s.kind = "Socket"   -> s.rxBuffer

\* what a packet call hands back: the instance, the exception, the packet
\* returned, the value the error message names, the header bytes decoded
\* (none if the header read failed) and the number of transport reads made
\* as if line 93 resolved the variant with self._pkt_types.pop(ptype)
PktOutcome_Pops(s, exc, pkt, val, hdr, n) ==
    [self |-> [s EXCEPT !._pkt_types = IF pkt # NoPacket /\ PyInt(pkt.type) \in DOMAIN @
                                          THEN DictPop(@, PyInt(pkt.type)) ELSE @],
     exc |-> exc, pkt |-> pkt, val |-> val, data |-> hdr, n |-> n, hooks |-> <<>>]

PktOutcome(s, exc, pkt, val, hdr, n) ==
    [self |-> s, exc |-> exc, pkt |-> pkt, val |-> val, data |-> hdr, n |-> n, hooks |-> <<>>]

\* self._pkt_header_params: every transport constructs the engine with addr=0x1
_pkt_header_params == [k \in {"addr"} |-> 1]

\* {**a, **b}
Merge(a, b) == [k \in DOMAIN a \cup DOMAIN b |-> IF k \in DOMAIN b THEN b[k] ELSE a[k]]

HookParams_CallWins(kwargs) == Merge(_pkt_header_params, kwargs)

\* { **kwargs, **self._pkt_header_params}
HookParams(kwargs) == Merge(kwargs, _pkt_header_params)

\* the outcome o of what followed a call of the hook with params
AfterHook(hook, params, o) == [o EXCEPT !.hooks = <<[hook |-> hook, params |-> params]>> \o @]

\* flush(True) and then raise exc, unless flush itself raises
FlushAndRaise(s, exc, val, hdr) ==
    LET f == flush(s, TRUE)
    IN  PktOutcome(f.self, IF f.exc # "None" THEN f.exc ELSE exc, NoPacket, val, hdr, 1)

\* self._pkt_base_size
_pkt_base_size == get_size(PktBase)

\* pkt.get_byte_size(), named in the size error's message
get_byte_size(cls) == get_size(cls)

\* the value the type error's message names
TypeErrorNames_Size(psize, ptype) == psize
TypeErrorNames(psize, ptype) == ptype

\* psize != pkt.get_size()
SizeMismatch_Never(psize, cls) == FALSE
SizeMismatch(psize, cls) == psize # get_size(cls)

\* rm_len = int(psize - self._pkt_base_size)
RemainingLen_Whole(psize) == psize

RemainingLen_None(psize) == 0
RemainingLen(psize) == psize - _pkt_base_size

\* pkt_read from line 81 on, h being the outcome of the header read
pkt_read_body_BodyFirst(h) ==
    LET bytes_ == h.data
        hdr_fields == parse_header(Take(bytes_, _pkt_base_size))
        psize == hdr_fields.size
        ptype == hdr_fields.type
        rm_len == RemainingLen(psize)
    IN  {IF b.exc # "None"
         THEN PktOutcome(b.self, b.exc, NoPacket, 0, bytes_, 2)
         ELSE IF PyInt(ptype) \notin DOMAIN b.self._pkt_types
         THEN PktOutcome(b.self, "PacketTypeError", NoPacket, TypeErrorNames(psize, ptype), bytes_, 2)
         ELSE IF SizeMismatch(psize, b.self._pkt_types[PyInt(ptype)])
         THEN FlushAndRaise(b.self, "PacketSizeError", get_byte_size(b.self._pkt_types[PyInt(ptype)]), bytes_)
         ELSE PktOutcome(b.self, "None", unpack(b.self._pkt_types[PyInt(ptype)], bytes_ \o b.data), 0, bytes_, 2)
         : b \in IF rm_len > 0 THEN read(h.self, rm_len) ELSE {Returns(h.self, <<>>)}}

pkt_read_body(h) ==
    LET s == h.self
        bytes_ == h.data
        hdr_fields == parse_header(Take(bytes_, _pkt_base_size))
        psize == hdr_fields.size
        ptype == hdr_fields.type
    IN  IF PyInt(ptype) \notin DOMAIN s._pkt_types
        THEN {PktOutcome(s, "PacketTypeError", NoPacket, TypeErrorNames(psize, ptype), bytes_, 1)}
        ELSE LET cls == s._pkt_types[PyInt(ptype)]
                 rm_len == RemainingLen(psize)
             IN  IF SizeMismatch(psize, cls)
                 THEN {FlushAndRaise(s, "PacketSizeError", get_byte_size(cls), bytes_)}
                 ELSE IF rm_len > 0
                 THEN {IF b.exc # "None"
                       THEN PktOutcome(b.self, b.exc, NoPacket, 0, bytes_, 2)
                       ELSE PktOutcome(b.self, "None", unpack(cls, bytes_ \o b.data), 0, bytes_, 2)
                       : b \in read(s, rm_len)}
                 ELSE {PktOutcome(s, "None", unpack(cls, bytes_), 0, bytes_, 1)}

pkt_read(s, kwargs) ==
    UNION {IF h.exc # "None"
           THEN {PktOutcome(h.self, h.exc, NoPacket, 0, <<>>, 1)}
           ELSE IF Len(h.data) < _pkt_base_size
           THEN \* the message's psize is not yet bound
                {FlushAndRaise(h.self, "UnboundLocalError", 0, <<>>)}
           ELSE {AfterHook("parse_header", HookParams(kwargs), o)
                 : o \in pkt_read_body(h)}
           : h \in read(s, _pkt_base_size)}

\* as if bytes(packet) were taken before the hook ran
pkt_write_SerializeFirst(s, packet, kwargs) ==
    {AfterHook("build_header", HookParams(kwargs), PktOutcome(w.self, w.exc, NoPacket, 0, <<>>, 0))
     : w \in write(s, ToBytes(packet))}

pkt_write(s, packet, kwargs) ==
    {AfterHook("build_header", HookParams(kwargs), PktOutcome(w.self, w.exc, NoPacket, 0, <<>>, 0))
     : w \in write(s, ToBytes(build_header(packet, HookParams(kwargs))))}

\* as if the packet were written before the receive buffer is flushed
pkt_sendrecv_WriteFirst(s, packet, kwargs) ==
    UNION {IF w.exc # "None"
           THEN {w}
           ELSE LET f == flush(w.self, FALSE)
                IN  IF f.exc # "None"
                    THEN {PktOutcome(f.self, f.exc, NoPacket, 0, <<>>, 0)}
                    ELSE {[r EXCEPT !.hooks = w.hooks \o @] : r \in pkt_read(f.self, kwargs)}
           : w \in pkt_write(s, packet, kwargs)}

pkt_sendrecv(s, packet, kwargs) ==
    LET f == flush(s, FALSE)
    IN  IF f.exc # "None"
        THEN {PktOutcome(f.self, f.exc, NoPacket, 0, <<>>, 0)}
        ELSE UNION {IF w.exc # "None"
                    THEN {w}
                    ELSE {[r EXCEPT !.hooks = w.hooks \o @] : r \in pkt_read(w.self, kwargs)}
                    : w \in pkt_write(f.self, packet, kwargs)}

(***************************************************************************)
(* The state machine.                                                      *)
(***************************************************************************)
Eols == {<<3>>}

ClassPool == {PktA, PktB, PktA3, PktC1, [name |-> "D", type |-> 3, body_len |-> 1]}

RECURSIVE ClassLists(_)
ClassLists(n) ==
    IF n = 0 THEN {<<>>}
    ELSE LET shorter == ClassLists(n - 1)
         IN  shorter \cup {Append(l, c) : l \in {t \in shorter : Len(t) = n - 1}, c \in ClassPool}

\* enumerations of distinct classes
Enumerations ==
    {l \in ClassLists(MaxClasses) : \A i, j \in 1..Len(l) : i # j => l[i] # l[j]}

Registered == <<PktA, PktB>>

Packets == UNION {Instances(Registered[i]) : i \in 1..Len(Registered)}

\* the keyword arguments of a packet call: none, or an address that collides with
\* the construction-time one together with a destination
Kwargs == {EmptyDict, [k \in {"addr", "dest"} |-> IF k = "addr" THEN 2 ELSE 3]}

RawBytes == SeqsUpTo(Byte, MaxWrite)

\* The record of a call.  Besides the call's name, argument (n, arg or reset_tx) and
\* result (exc, data, pkt, val, recvd) it keeps three facts of the past: for a packet
\* call whether the receive buffer was empty when the call began, for a pkt_read
\* the packet that the call just before wrote, if that call was a pkt_write onto
\* an empty receive buffer, and whether a close() repeats a close() of the same
\* instance.  For open() and
\* close() of a SerialInterface n is the instance.
Call(op, exc, data, pkt, val, n, arg) ==
    [op |-> op, exc |-> exc, data |-> data, pkt |-> pkt, val |-> val, n |-> n, arg |-> arg,
     recvd |-> NoPayload, reset_tx |-> FALSE, kwargs |-> EmptyDict, hooks |-> <<>>,
     repeated |-> (op = "close" /\ ret.op = "close" /\ ret.n = n),
     pre_empty |-> (op \in {"pkt_write", "pkt_read", "pkt_sendrecv"} /\ RecvBuf(Self) = <<>>),
     last_written |-> IF op = "pkt_read" /\ ret.op = "pkt_write" /\ ret.exc = "None" /\ ret.pre_empty
                      THEN ret.arg ELSE NoPacket]

InitTransport ==
    /\ kind \in {"LoopBack", "Serial", "Socket"}
    /\ eol \in Eols
    /\ rx_buffer = <<>>
    /\ tx_buffer = <<>>
    /\ ser_in = <<>>
    /\ ser_open = [i \in SerialInstances |-> kind = "Serial" /\ i = 1]
    /\ OPEN_PORTS = (IF kind = "Serial" THEN DictSet(EmptyDict, Port, 1) ELSE EmptyDict)
    /\ rxBuffer = <<>>
    /\ net = <<>>
    /\ mode \in (IF kind = "Socket" THEN {"udp", "server", "client"} ELSE {"none"})
    /\ _connected = FALSE
    /\ socket = (IF mode \in {"udp", "client"} THEN "notconn" ELSE "None")
    \* a listening socket is one that shutdown() accepts
    /\ _host_skt = (IF mode = "server" THEN "open" ELSE "None")
    /\ ret = [op |-> "__init__", exc |-> "None", data |-> <<>>, pkt |-> NoPacket, val |-> 0,
              n |-> 0, arg |-> NoPacket, recvd |-> NoPayload, reset_tx |-> FALSE, kwargs |-> EmptyDict, hooks |-> <<>>,
              repeated |-> FALSE, pre_empty |-> TRUE,
              last_written |-> NoPacket]

Init ==
    /\ InitTransport
    /\ subclasses = Registered
    /\ _pkt_types = PacketTransfer_init(subclasses).types
    /\ ctor = [state |-> "done", exc |-> "None", msg |-> ""]

\* the instance becomes s
Becomes(s) ==
    /\ rx_buffer' = s.rx_buffer
    /\ tx_buffer' = s.tx_buffer
    /\ ser_in' = s.ser_in
    /\ ser_open' = s.ser_open
    /\ OPEN_PORTS' = s.OPEN_PORTS
    /\ rxBuffer' = s.rxBuffer
    /\ net' = s.net
    /\ _connected' = s._connected
    /\ socket' = s.socket
    /\ _host_skt' = s._host_skt
    /\ _pkt_types' = s._pkt_types
    /\ UNCHANGED <<kind, eol, mode, subclasses, ctor>>

Write ==
    \E bytes_ \in RawBytes :
        /\ Len(RecvBuf(Self)) + Len(bytes_) <= MaxBuf
        /\ \E w \in write(Self, bytes_) :
              /\ Becomes(w.self)
              /\ ret' = Call("write", w.exc, <<>>, NoPacket, Len(w.data), 0, NoPacket)

Read ==
    \E nbytes \in (0..MaxBuf) \cup {None} :
        \E r \in read(Self, nbytes) :
            /\ Becomes(r.self)
            /\ ret' = [Call("read", r.exc, r.data, NoPacket, 0, nbytes, NoPacket)
                          EXCEPT !.recvd = r.recvd]

Flush ==
    \E reset_tx \in BOOLEAN :
        LET f == flush(Self, reset_tx)
        IN  /\ Becomes(f.self)
            /\ ret' = [Call("flush", f.exc, <<>>, NoPacket, 0, 0, NoPacket)
                          EXCEPT !.reset_tx = reset_tx]

\* the caller's packet object after the call: build_header has populated it if the
\* call came as far as the hook
Populated(packet, hooks) ==
    IF hooks # <<>> /\ hooks[1].hook = "build_header"
    THEN build_header(packet, hooks[1].params)
    ELSE packet

PktWrite ==
    \E packet \in Packets, kwargs \in Kwargs :
        /\ Len(RecvBuf(Self)) + Len(ToBytes(packet)) <= MaxBuf
        /\ \E w \in pkt_write(Self, packet, kwargs) :
              /\ Becomes(w.self)
              /\ ret' = [Call("pkt_write", w.exc, <<>>, NoPacket, 0, 0, Populated(packet, w.hooks))
                            EXCEPT !.kwargs = kwargs, !.hooks = w.hooks]

PktRead ==
    \E kwargs \in Kwargs :
        \E r \in pkt_read(Self, kwargs) :
            /\ Becomes(r.self)
            /\ ret' = [Call("pkt_read", r.exc, r.data, r.pkt, r.val, r.n, NoPacket)
                          EXCEPT !.kwargs = kwargs, !.hooks = r.hooks]

PktSendRecv ==
    \E packet \in Packets, kwargs \in Kwargs :
        \E r \in pkt_sendrecv(Self, packet, kwargs) :
            /\ Becomes(r.self)
            /\ ret' = [Call("pkt_sendrecv", r.exc, r.data, r.pkt, r.val, r.n, Populated(packet, r.hooks))
                          EXCEPT !.kwargs = kwargs, !.hooks = r.hooks]

Connect ==
    /\ kind = "Socket"
    /\ \E c \in SocketInterface_connect(Self) :
          /\ Becomes(c.self)
          /\ ret' = Call("connect", c.exc, <<>>, NoPacket, 0, 0, NoPacket)

Close ==
    /\ kind = "Socket"
    /\ \E c \in SocketInterface_close(Self) :
          /\ Becomes(c)
          /\ ret' = Call("close", "None", <<>>, NoPacket, 0, 0, NoPacket)

SerialOpen ==
    /\ kind = "Serial"
    /\ \E i \in SerialInstances :
          \E o \in SerialInterface_open(Self, i) :
              /\ Becomes(o.self)
              /\ ret' = Call("open", o.exc, <<>>, NoPacket, 0, i, NoPacket)

SerialClose ==
    /\ kind = "Serial"
    /\ \E i \in SerialInstances :
          LET c == SerialInterface_close(Self, i)
          IN  /\ Becomes(c.self)
              /\ ret' = Call("close", c.exc, <<>>, NoPacket, 0, i, NoPacket)

\* the environment: the peer of the connected socket resets the connection
PeerGone ==
    /\ kind = "Socket"
    /\ _connected /\ socket = "open"
    /\ Becomes([Self EXCEPT !.socket = "notconn"])
    /\ ret' = Call("peer_gone", "None", <<>>, NoPacket, 0, 0, NoPacket)

\* the environment: bytes reach the serial port or the connected socket
Arrive ==
    \E b \in SeqsUpTo(Byte, MaxNet) \ {<<>>} :
        /\ \/ /\ kind = "Serial"
              /\ is_open(Self, 1)
              /\ Len(ser_in) + Len(b) <= MaxBuf
              /\ Becomes([Self EXCEPT !.ser_in = ser_in \o b])
           \/ /\ kind = "Socket"
              /\ _connected /\ socket = "open"
              /\ Len(net) + Len(b) <= MaxNet
              /\ Len(rxBuffer) + Len(net) + Len(b) <= MaxSock
              /\ Becomes([Self EXCEPT !.net = net \o b])
        /\ ret' = Call("arrive", "None", <<>>, NoPacket, 0, 0, NoPacket)

Next ==
    \/ Write
    \/ Read
    \/ Flush
    \/ PktWrite
    \/ PktRead
    \/ PktSendRecv
    \/ Connect
    \/ Close
    \/ SerialOpen
    \/ SerialClose
    \/ Arrive
    \/ PeerGone

Spec == Init /\ [][Next]_vars

(***************************************************************************)
(* Construction of the engine over every enumeration of variants.          *)
(***************************************************************************)
InitReg ==
    /\ InitTransport
    /\ subclasses \in Enumerations
    /\ _pkt_types = EmptyDict
    /\ ctor = [state |-> "new", exc |-> "None", msg |-> ""]

Construct ==
    /\ ctor.state = "new"
    /\ LET r == PacketTransfer_init(subclasses)
       IN  /\ _pkt_types' = r.types
           /\ ctor' = [state |-> "done", exc |-> r.exc, msg |-> r.msg]
    /\ ret' = [ret EXCEPT !.op = "PacketTransfer.__init__"]
    /\ UNCHANGED <<kind, eol, rx_buffer, tx_buffer, ser_in, ser_open, OPEN_PORTS, rxBuffer, net, mode,
                   _connected, socket, _host_skt, subclasses>>

NextReg == Construct

SpecReg == InitReg /\ [][NextReg]_vars

(***************************************************************************)
(* Properties.                                                             *)
(***************************************************************************)
IsPktRead == ret.op \in {"pkt_read", "pkt_sendrecv"}

\* the call decoded a header
HeaderDecoded == IsPktRead /\ Len(ret.data) = _pkt_base_size

DecodedSize == ret.data[1]
DecodedType == ret.data[2]

\* C1: on a LoopBack whose receive buffer is empty, pkt_write(p) of a registered
\* variant followed by pkt_read() returns a packet of p's variant equal to p in
\* every field, and the receive buffer is empty again.
C1_RoundTrip ==
    (kind = "LoopBack" /\ ret.op = "pkt_read" /\ ret.last_written # NoPacket)
        => /\ ret.exc = "None"
           /\ ret.pkt.cls = ret.last_written.cls
           /\ ret.pkt = ret.last_written
           /\ rx_buffer = <<>>

C1_Witness ==
    /\ kind = "LoopBack"
    /\ ret.op = "pkt_read"
    /\ ret.last_written = Packet_init(PktA, <<2>>)
    /\ ret.pkt = Packet_init(PktA, <<2>>)
    /\ rx_buffer = <<>>

\* C2: on a LoopBack in any state, stale bytes in the receive buffer included,
\* pkt_sendrecv(p) of a registered variant returns a packet equal to p.
C2_SendRecvDiscardsStale ==
    (kind = "LoopBack" /\ ret.op = "pkt_sendrecv")
        => /\ ret.exc = "None"
           /\ ret.pkt = ret.arg
           /\ rx_buffer = <<>>

C2_Witness ==
    /\ kind = "LoopBack"
    /\ ret.op = "pkt_sendrecv"
    /\ ~ret.pre_empty
    /\ ret.arg = Packet_init(PktA, <<3>>)
    /\ ret.pkt = ret.arg

\* C3: a pkt_read whose decoded discriminator is no key of the registry fails with
\* PacketTypeError naming that discriminator, and returns no packet.
C3_UnknownTypeIsTypeError ==
    (HeaderDecoded /\ PyInt(DecodedType) \notin DOMAIN _pkt_types)
        => /\ ret.exc = "PacketTypeError"
           /\ ret.val = DecodedType
           /\ ret.pkt = NoPacket

\* variants 1 and 2 registered, a frame of discriminator 3
C3_Witness ==
    /\ DOMAIN _pkt_types = {PyInt(1), PyInt(2)}
    /\ ret.op = "pkt_read"
    /\ HeaderDecoded
    /\ DecodedType = 3
    /\ ret.exc = "PacketTypeError"
    /\ ret.val = 3

\* C4: when pkt_read fails with a type error the receive buffer is empty, the body
\* of the rejected frame and the bytes behind it included.
C4_TypeErrorFlushes ==
    (IsPktRead /\ ret.exc = "PacketTypeError") => RecvBuf(Self) = <<>>

\* C5: a pkt_read whose decoded size differs from the resolved variant's size
\* flushes the transport and fails with PacketSizeError having read the header
\* only; every packet pkt_read returns carries its variant's computed size.
C5_SizeMismatchIsSizeError ==
    /\ (HeaderDecoded /\ PyInt(DecodedType) \in DOMAIN _pkt_types
            /\ DecodedSize # get_size(_pkt_types[PyInt(DecodedType)]))
        => /\ ret.exc = "PacketSizeError"
           /\ ret.pkt = NoPacket
           /\ ret.n = 1
           /\ RecvBuf(Self) = <<>>
    /\ (IsPktRead /\ ret.exc = "None")
        => ret.pkt.size = get_size(ret.pkt.cls)

C5_Witness ==
    /\ ret.op = "pkt_read"
    /\ HeaderDecoded
    /\ DecodedType = 1
    /\ DecodedSize = 2
    /\ ~ret.pre_empty
    /\ ret.exc = "PacketSizeError"

\* C6: a pkt_read for which the transport has fewer bytes than the header fails
\* with PacketSizeError and leaves the receive buffer empty.
C6_ShortHeaderIsSizeError ==
    (kind \in {"LoopBack", "Serial"} /\ ret.op = "pkt_read" /\ Len(ret.data) < _pkt_base_size)
        => /\ ret.exc = "PacketSizeError"
           /\ RecvBuf(Self) = <<>>

HasDuplicateType(classes) ==
    \E i, j \in 1..Len(classes) : i # j /\ Discriminator(classes[i]) = Discriminator(classes[j])

HasDuplicateName(classes) ==
    \E i, j \in 1..Len(classes) : i # j /\ classes[i].name = classes[j].name

\* C7: construction fails with a configuration error whenever two enumerated
\* variants report the same discriminator; when it succeeds the discriminators
\* of the enumerated variants are pairwise distinct and each is registered.
C7_DuplicateTypeRejected ==
    (ctor.state = "done")
        => /\ HasDuplicateType(subclasses) => ctor.exc = "RuntimeError"
           /\ ctor.exc = "None"
                => /\ ~HasDuplicateType(subclasses)
                   /\ \A i \in 1..Len(subclasses) :
                         _pkt_types[PyInt(Discriminator(subclasses[i]))] = subclasses[i]

C7_Witness ==
    /\ ctor.state = "done"
    /\ subclasses = <<PktA, PktB, PktC1>>
    /\ ctor.exc = "RuntimeError"
    /\ ctor.msg = "Duplicate type fields"

\* C8: construction fails with a configuration error whenever two enumerated
\* variants share a name, even if their discriminators are distinct.
C8_DuplicateNameRejected ==
    (ctor.state = "done" /\ HasDuplicateName(subclasses)) => ctor.exc = "RuntimeError"

\* the bytes the transport holds for the reader, oldest first
Stream == RecvBuf(Self) \o net

\* C9: on every transport a read(n) that returns, returns exactly n bytes, the
\* oldest of the stream, and what remains keeps its content and order.
C9_ReadExact ==
    [][(ret'.op = "read" /\ ret'.exc = "None" /\ ret'.n # None)
          => /\ Len(ret'.data) = ret'.n
             /\ Stream = ret'.data \o Stream']_vars

C9_Witness ==
    /\ kind = "Socket"
    /\ ret.op = "read"
    /\ ret.exc = "None"
    /\ ret.n = 1
    /\ Len(ret.data) = 1
    /\ rxBuffer # <<>>

\* C10: when read(n) fails for want of n bytes, a loopback or serial transport is
\* left with an empty receive buffer.
C10_FailedReadFlushes ==
    (kind \in {"LoopBack", "Serial"} /\ ret.op = "read" /\ ret.n # None /\ ret.exc = "RuntimeError")
        => RecvBuf(Self) = <<>>

\* read(n) failed for want of n bytes
ReadTimedOut(r) ==
    /\ r.op = "read"
    /\ r.n # None
    /\ r.exc = (IF kind = "Socket" THEN "TimeoutError" ELSE "RuntimeError")

\* C11: on every transport a read(n) that fails because fewer than n bytes
\* accumulated raises an error whose message shows exactly the bytes accumulated
\* so far.
C11_TimeoutCarriesPartial ==
    [][ReadTimedOut(ret')
          => ret'.recvd = PayloadBytes(IF kind = "Socket" THEN rxBuffer' ELSE RecvBuf(Self))]_vars

\* C12: a TCP socket transport reports itself connected only between a successful
\* connect() and the next close(): after close() has run, called by the user or by
\* read() on timeout, is_connected() is false.
C12_ClosedIsDisconnected ==
    (kind = "Socket" /\ mode \in {"server", "client"}
        /\ (ret.op = "close" \/ (ret.op = "read" /\ ret.exc = "TimeoutError")))
        => ~is_connected(Self)

\* C13: a socket transport in the UDP configuration reports is_connected() true
\* from construction onward, before and after connect().
C13_UdpAlwaysConnected ==
    (kind = "Socket" /\ mode = "udp") => is_connected(Self)

\* C14: on a socket transport, read and write invoked while is_connected() is false
\* fail at once with an error, send and receive nothing and leave the receive
\* buffer and the connection state as they were.
C14_NotConnectedFails ==
    [][(kind = "Socket" /\ ~is_connected(Self) /\ ret'.op \in {"read", "write"})
          => /\ ret'.exc = "RuntimeError"
             /\ ret'.val = 0
             /\ ret'.data = <<>>
             /\ UNCHANGED <<rxBuffer, net, _connected, socket, _host_skt>>]_vars

C14_Witness ==
    /\ kind = "Socket"
    /\ mode = "udp"
    /\ Held(socket)
    /\ ~is_connected(Self)
    /\ ret.op = "write"
    /\ ret.exc = "RuntimeError"

\* C16: after close() returns on a socket transport, in whatever state it was
\* called, the transport holds no OS-level socket handle.
C16_CloseReleasesHandles ==
    (kind = "Socket" /\ ret.op = "close") => (~Held(socket) /\ ~Held(_host_skt))

\* C15: on a serial or a socket transport a close() that follows a close() of the
\* same instance raises nothing, neither did the first, and it leaves the
\* connection state, the handles and the open-port registry as the first left them.
C15_CloseIdempotent ==
    [][(kind \in {"Serial", "Socket"} /\ ret'.op = "close" /\ ret'.repeated)
          => /\ ret.exc = "None"
             /\ ret'.exc = "None"
             /\ UNCHANGED <<_connected, socket, _host_skt, ser_open, OPEN_PORTS, ser_in, rxBuffer>>]_vars

C15_Witness ==
    /\ kind = "Serial"
    /\ ret.op = "close"
    /\ ret.repeated
    /\ ret.n = 1
    /\ Port \notin DOMAIN OPEN_PORTS

\* the instances whose port is open
OpenInstances == {i \in SerialInstances : ser_open[i]}

\* the instance the registry holds for the port, if any
Holders == {OPEN_PORTS[p] : p \in DOMAIN OPEN_PORTS}

\* C17: of the SerialInterface instances sharing a port at most one is open, and
\* the registry maps the port to an instance exactly if that instance is the open
\* one; open() closes the previous holder of the port before it registers the new
\* one; close() by an instance that is not open leaves the registration alone.
C17_OnePortOneHolder ==
    /\ [](kind = "Serial" => (Cardinality(OpenInstances) <= 1 /\ Holders = OpenInstances))
    /\ [][(kind = "Serial" /\ ret'.op = "open")
             => /\ \A j \in Holders \ {ret'.n} : ~ser_open'[j]
                /\ ret'.exc = "None" => (OpenInstances' = {ret'.n} /\ OPEN_PORTS'[Port] = ret'.n)]_vars
    /\ [][(kind = "Serial" /\ ret'.op = "close" /\ ~ser_open[ret'.n])
             => UNCHANGED <<OPEN_PORTS, ser_open>>]_vars

C17_Witness ==
    /\ kind = "Serial"
    /\ ret.op = "close"
    /\ ret.n = 1
    /\ ~ser_open[1]
    /\ ser_open[2]
    /\ Port \in DOMAIN OPEN_PORTS
    /\ OPEN_PORTS[Port] = 2

\* what the hooks of the last packet call must have been given
Delivered(p) ==
    /\ DOMAIN p = DOMAIN ret.kwargs \cup DOMAIN _pkt_header_params
    /\ \A k \in DOMAIN p :
          p[k] = IF k \in DOMAIN _pkt_header_params THEN _pkt_header_params[k] ELSE ret.kwargs[k]

\* C18: pkt_write hands build_header, and pkt_read hands parse_header, the union
\* of the call's parameters and the engine's construction-time parameters, with
\* the construction-time value for every key the two share.
C18_HookParamsMerged ==
    /\ \A j \in 1..Len(ret.hooks) : Delivered(ret.hooks[j].params)
    /\ ret.op = "pkt_write"
          => (Len(ret.hooks) = 1 /\ ret.hooks[1].hook = "build_header")
    /\ (ret.op = "pkt_read" /\ ret.exc = "None")
          => (Len(ret.hooks) = 1 /\ ret.hooks[1].hook = "parse_header")

C18_Witness ==
    /\ ret.op = "pkt_read"
    /\ ret.exc = "None"
    /\ "addr" \in DOMAIN ret.kwargs
    /\ ret.kwargs["addr"] = 2
    /\ Len(ret.hooks) = 1
    /\ ret.hooks[1].params["addr"] = 1
    /\ ret.hooks[1].params["dest"] = 3

\* C19: flush(reset_tx) on a loopback transport empties the receive buffer; it
\* empties the transmit buffer too if reset_tx is true and leaves it as it was if
\* reset_tx is false.
C19_FlushResetsTx ==
    [][(kind = "LoopBack" /\ ret'.op = "flush")
          => /\ rx_buffer' = <<>>
             /\ ret'.reset_tx => tx_buffer' = <<>>
             /\ ~ret'.reset_tx => tx_buffer' = tx_buffer]_vars

\* a read on a loopback or socket transport that returned
ReadReturned(r) == kind \in {"LoopBack", "Socket"} /\ r.op = "read" /\ r.exc = "None"

\* C20 as stated: every read that returns, on a loopback or a socket transport,
\* with a length or up to the delimiter, removes from the receive buffer exactly
\* as many bytes as it returns.
C20_RemovesWhatItReturns ==
    [][ReadReturned(ret') => Len(Stream) - Len(Stream') = Len(ret'.data)]_vars

\* C20: a read that returns removes from the receive buffer exactly the bytes it
\* returns, but for the delimiter read of a socket transport, which removes the
\* bytes it returns and one byte more, the delimiter.
C20_RemovesWhatItReturnsOrDelimiter ==
    [][ReadReturned(ret')
          => IF kind = "Socket" /\ ret'.n = None
             THEN Stream = (ret'.data \o eol) \o Stream'
             ELSE Stream = ret'.data \o Stream']_vars

C20_Witness ==
    /\ kind = "Socket"
    /\ ret.op = "read"
    /\ ret.exc = "None"
    /\ ret.n = None
    /\ ret.data # <<>>

\* the variant the decoded discriminator resolves to
Resolved == _pkt_types[PyInt(DecodedType)]

\* C21: within one pkt_read the header is read and decoded first, the discriminator
\* is looked up before the size is checked (a frame that is wrong in both yields
\* the type error), and the transport is asked for body bytes only after the
\* discriminator and the size have both been found valid.
C21_StepsInOrder ==
    /\ (HeaderDecoded /\ PyInt(DecodedType) \notin DOMAIN _pkt_types)
          => (ret.exc = "PacketTypeError" /\ ret.n = 1)
    /\ (IsPktRead /\ ret.n = 2)
          => /\ HeaderDecoded
             /\ PyInt(DecodedType) \in DOMAIN _pkt_types
             /\ DecodedSize = get_size(Resolved)
             /\ DecodedSize > _pkt_base_size
    /\ (IsPktRead /\ ret.exc = "None")
          => /\ HeaderDecoded
             /\ ret.pkt.cls = Resolved
             /\ ret.n = (IF DecodedSize > _pkt_base_size THEN 2 ELSE 1)

\* a frame whose discriminator is unknown and whose size fits no variant
C21_Witness ==
    /\ ret.op = "pkt_read"
    /\ HeaderDecoded
    /\ DecodedType = 3
    /\ DecodedSize = 1
    /\ ret.exc = "PacketTypeError"
    /\ ret.n = 1

\* the receive buffer begins with the bytes f
BeginsWith(buf, f) == Len(buf) >= Len(f) /\ Take(buf, Len(f)) = f

\* C22: a pkt_read that returns removes from the receive buffer exactly the frame
\* it returns, as many bytes as its size field says, and leaves what follows; so
\* a loopback whose buffer begins with the frame of a registered variant returns
\* that packet and keeps the frames behind it for the next pkt_read.
C22_ReadsOneFrame ==
    /\ [][(ret'.op = "pkt_read" /\ ret'.exc = "None")
             => /\ Stream = ToBytes(ret'.pkt) \o Stream'
                /\ Len(Stream) - Len(Stream') = ret'.data[1]]_vars
    /\ [][(kind = "LoopBack" /\ ret'.op = "pkt_read")
             => \A p \in Packets :
                   BeginsWith(rx_buffer, ToBytes(p))
                       => /\ ret'.exc = "None"
                          /\ ret'.pkt = p
                          /\ rx_buffer' = Drop(rx_buffer, Len(ToBytes(p)))]_vars

\* a frame with a body was read and the byte behind it is still there
C22_Witness ==
    /\ kind = "LoopBack"
    /\ ret.op = "pkt_read"
    /\ ret.exc = "None"
    /\ ret.pkt.cls = PktA
    /\ ret.n = 2
    /\ rx_buffer # <<>>

\* C23: in every state the registry is the table built at construction, one entry
\* per enumerated variant under that variant's discriminator: no call of the
\* engine or of the transport, returning or failing, adds, removes or rebinds an
\* entry.
C23_RegistryFixed ==
    /\ _pkt_types = PacketTransfer_init(subclasses).types
    /\ DOMAIN _pkt_types = {PyInt(subclasses[i].type) : i \in 1..Len(subclasses)}
    /\ \A i \in 1..Len(subclasses) : _pkt_types[PyInt(subclasses[i].type)] = subclasses[i]

\* a packet was read, and both variants are still registered
C23_Witness ==
    /\ ret.op = "pkt_sendrecv"
    /\ ret.exc = "None"
    /\ ret.pkt.cls = PktA
    /\ DOMAIN _pkt_types = {PyInt(1), PyInt(2)}
    /\ _pkt_types[PyInt(1)] = PktA

\* C24: pkt_write runs the packet's build_header before it takes the packet's
\* bytes, so the bytes handed to the transport are those of the packet as the hook
\* populated it, and it hands them over in one write that carries the whole frame.
C24_HookThenOneWrite ==
    /\ [][ret'.op = "pkt_write"
             => /\ Len(ret'.hooks) = 1
                /\ ret'.hooks[1].hook = "build_header"
                /\ ("dest" \in DOMAIN ret'.kwargs /\ ret'.arg.cls = PktA)
                      => ret'.arg.body = <<ret'.kwargs["dest"]>>]_vars
    /\ [][(kind = "LoopBack" /\ ret'.op = "pkt_write")
             => /\ tx_buffer' = ToBytes(ret'.arg)
                /\ Len(tx_buffer') = ret'.arg.size
                /\ rx_buffer' = rx_buffer \o ToBytes(ret'.arg)]_vars

\* the frame written carries the destination the hook filled in
C24_Witness ==
    /\ kind = "LoopBack"
    /\ ret.op = "pkt_write"
    /\ "dest" \in DOMAIN ret.kwargs
    /\ ret.arg.cls = PktA
    /\ tx_buffer = <<3, 1, ret.kwargs["dest"]>>

\* C25: one pkt_sendrecv flushes the receive side, then writes the frame once,
\* then runs one read cycle: the read sees the frame the write has completed, a
\* failed write is followed by no read, and nothing is written or read twice.
C25_FlushWriteRead ==
    /\ [][ret'.op = "pkt_sendrecv"
             => /\ Len(ret'.hooks) <= 2
                /\ \A j \in 1..Len(ret'.hooks) :
                      ret'.hooks[j].hook = (IF j = 1 THEN "build_header" ELSE "parse_header")
                /\ ret'.n <= 2
                /\ Len(ret'.hooks) = 2 => ret'.n >= 1]_vars
    /\ [][(kind = "LoopBack" /\ ret'.op = "pkt_sendrecv")
             => /\ ret'.exc = "None"
                /\ tx_buffer' = ToBytes(ret'.arg)
                /\ ret'.data = Take(tx_buffer', _pkt_base_size)
                /\ ret'.pkt = ret'.arg
                /\ Len(ret'.hooks) = 2
                /\ rx_buffer' = <<>>]_vars
    /\ [][(kind = "Socket" /\ ret'.op = "pkt_sendrecv" /\ ret'.n = 0)
             => /\ ret'.exc # "None"
                /\ rxBuffer' = <<>>
                /\ net' = net]_vars

\* stale bytes were waiting, the frame went out once and came back
C25_Witness ==
    /\ kind = "LoopBack"
    /\ ret.op = "pkt_sendrecv"
    /\ ~ret.pre_empty
    /\ Len(ret.hooks) = 2
    /\ ret.n = 2
    /\ tx_buffer = ToBytes(ret.arg)
    /\ ret.pkt = ret.arg

\* byte strings that hold no delimiter
Records == {r \in RawBytes : Occurrences(r, eol) = {}}

\* C26: on a loopback or socket transport whose receive buffer holds two records,
\* each followed by the delimiter, read() returns the first record and the
\* read() after it returns the second.
C26_DelimitedReadsProgress ==
    [][(kind \in {"LoopBack", "Socket"} /\ ret'.op = "read" /\ ret'.n = None)
          => \A r1, r2 \in Records :
                RecvBuf(Self) = r1 \o eol \o r2 \o eol
                    => /\ ret'.exc = "None"
                       /\ ret'.data = r1
                       /\ \A o \in read(Self', None) : o.exc = "None" /\ o.data = r2]_vars

\* C27: on a TCP server connect() accepts one peer and makes the accepted socket
\* the I/O socket; a connect() while is_connected() is true accepts nothing and
\* leaves the peer socket, the listening socket and the connection state alone.
C27_OneAcceptPerSession ==
    [][(kind = "Socket" /\ mode = "server" /\ ret'.op = "connect")
          => IF is_connected(Self)
             THEN /\ ret'.exc = "None"
                  /\ UNCHANGED <<socket, _host_skt, _connected, rxBuffer, net>>
             ELSE /\ ret'.exc = "None" => (socket' = "open" /\ _connected')
                  /\ ret'.exc # "None" => UNCHANGED <<socket, _connected>>
                  /\ UNCHANGED <<_host_skt, rxBuffer, net>>]_vars

\* the peer has gone and connect() was called again: no new peer was accepted
C27_Witness ==
    /\ kind = "Socket"
    /\ mode = "server"
    /\ ret.op = "connect"
    /\ ret.exc = "None"
    /\ _connected
    /\ socket = "notconn"

====
